---- MODULE Spec2Model ----
(***************************************************************************)
(* A model of openapi-cli: the Schema Extractor (pkg/cli/list.go,          *)
(* GetSchema and parseServer), the request execution path                  *)
(* (pkg/openapi/run.go, Run and the four parameter passes) and the         *)
(* multi-file run / get-schema commands (pkg/cli/run.go, getschema.go).    *)
(*                                                                         *)
(* Text is a sequence of tokens.  A token is a literal piece of text       *)
(* (Lit) or a "{name}" placeholder (Var), so that strings.Replace of a     *)
(* placeholder, strings.Join, strings.HasPrefix and url.Values.Encode are  *)
(* computed on the text and not assumed.                                   *)
(***************************************************************************)
EXTENDS Integers, Sequences, FiniteSets, TLC

Lit(s) == [k |-> "lit", s |-> s]
Var(n) == [k |-> "var", s |-> n]

\* The orders in which a Go map of the given key set may be ranged over.
Perms(S) == { p \in [1..Cardinality(S) -> S] : \A i, j \in 1..Cardinality(S) : p[i] = p[j] => i = j }

\* p restricted to the elements of S, order kept.
RECURSIVE Filter(_, _)
Filter(p, S) ==
    IF p = <<>> THEN <<>>
    ELSE IF Head(p) \in S THEN <<Head(p)>> \o Filter(Tail(p), S)
    ELSE Filter(Tail(p), S)

\* strings.Replace(s, "{name}", val, 1): the first "{name}" becomes val.
RECURSIVE ReplaceFirst(_, _, _)
ReplaceFirst(s, name, val) ==
    IF s = <<>> THEN <<>>
    ELSE IF Head(s) = Var(name) THEN val \o Tail(s)
    ELSE <<Head(s)>> \o ReplaceFirst(Tail(s), name, val)

\* Literal pieces that begin with the four letters "http".
HttpLits == {"https://", "http://", "https", "http"}

\* strings.HasPrefix(s, "http") on the token text.
HasHttpPrefix(s) == s # <<>> /\ s[1].k = "lit" /\ s[1].s \in HttpLits

\* A literal as text: the empty string is the empty text.
Text(str) == IF str = "" THEN <<>> ELSE <<Lit(str)>>

----------------------------------------------------------------------------
(* parseServer, pkg/cli/list.go *)

\* One pass of the loop over server.Variables for the variables in names.
\* The values substituted are literals, which hold no placeholder, so the
\* range order of the map does not change the result.
RECURSIVE SubstVars(_, _, _)
SubstVars(s, vars, names) ==
    IF names = {} THEN s
    ELSE LET name == CHOOSE x \in names : TRUE
             variable == vars[name]
             s2 == IF variable.isNil THEN s
                   ELSE IF variable.Default # "" THEN ReplaceFirst(s, name, Text(variable.Default))
                   ELSE IF Len(variable.Enum) > 0 THEN ReplaceFirst(s, name, Text(variable.Enum[1]))
                   ELSE s
         IN SubstVars(s2, vars, names \ {name})

parseServer(server) ==
    LET s == SubstVars(server.URL, server.Variables, DOMAIN server.Variables)
    IN IF ~HasHttpPrefix(s) THEN [s |-> <<>>, err |-> "invalid server URL"]
       ELSE [s |-> s, err |-> ""]

----------------------------------------------------------------------------
(* GetSchema, pkg/cli/list.go *)

supportedMIMETypes == {"application/json", "application/x-www-form-urlencoded", "multipart/form-data"}

NoInfo ==
    [Server |-> <<>>, Path |-> <<>>, Method |-> "", BodyContentMIME |-> "",
     QueryParams |-> <<>>, PathParams |-> <<>>, HeaderParams |-> <<>>, CookieParams |-> <<>>]

NoSchema == [Properties |-> <<>>, Required |-> <<>>]

\* The four results of GetSchema; panicked = a nil-pointer dereference ended it.
GsResult(schema, info, found, err) ==
    [schema |-> schema, info |-> info, found |-> found, err |-> err, panicked |-> FALSE]
GsError(err) == GsResult(NoSchema, NoInfo, FALSE, err)
GsPanic == [schema |-> NoSchema, info |-> NoInfo, found |-> FALSE, err |-> "", panicked |-> TRUE]

Parameter(param) == [Name |-> param.Name, Style |-> param.Style, Explode |-> param.Explode]

\* The Parameter records of the params declared in the given location, in order.
RECURSIVE ParamsIn(_, _)
ParamsIn(params, loc) ==
    IF params = <<>> THEN <<>>
    ELSE IF Head(params).In = loc THEN <<Parameter(Head(params))>> \o ParamsIn(Tail(params), loc)
    ELSE ParamsIn(Tail(params), loc)

\* arguments.Required after the loop over the parameters.
RECURSIVE RequiredOf(_)
RequiredOf(params) ==
    IF params = <<>> THEN <<>>
    ELSE IF Head(params).Required THEN <<Head(params).Name>> \o RequiredOf(Tail(params))
    ELSE RequiredOf(Tail(params))

\* A slip: the line that stores the argument's schema is left out.
PropertiesOf_NotStored(params) == <<>>

\* arguments.Properties after the loop: a later parameter of the same name
\* overwrites an earlier one.
PropertiesOf(params) ==
    [n \in {params[i].Name : i \in DOMAIN params} |->
        LET last == CHOOSE i \in DOMAIN params :
                        /\ params[i].Name = n
                        /\ \A j \in DOMAIN params : params[j].Name = n => j <= i
        IN [type |-> params[last].SchemaType]]

\* The request body step: mimes is the order in which the content map is
\* ranged over, restricted to the supported types (the others are skipped).
BodyMIME(operation, mimes) ==
    LET have == Filter(mimes, DOMAIN operation.RequestBody.Content)
    IN IF have = <<>> THEN "" ELSE Head(have)

\* The body of the loop once operation.OperationID = operationID.
MatchedOperation(operationID, path, pathItem, method, operation, pathServer, mimes) ==
    LET opServer == IF Len(operation.Servers) > 0 THEN parseServer(operation.Servers[1])
                    ELSE [s |-> pathServer, err |-> ""]
        params == operation.Parameters \o pathItem.Parameters
        mime == IF operation.RequestBody.present THEN BodyMIME(operation, mimes) ELSE ""
        hasBody == operation.RequestBody.present /\ mime # ""
        props == IF hasBody
                 THEN [n \in (DOMAIN PropertiesOf(params)) \cup {"requestBodyContent"} |->
                          IF n = "requestBodyContent"
                          THEN [type |-> operation.RequestBody.Content[mime].SchemaType]
                          ELSE PropertiesOf(params)[n]]
                 ELSE PropertiesOf(params)
        required == IF hasBody THEN RequiredOf(params) \o <<"requestBodyContent">>
                    ELSE RequiredOf(params)
        info == [Server |-> opServer.s, Path |-> path, Method |-> method, BodyContentMIME |-> mime,
                 QueryParams |-> ParamsIn(params, "query"), PathParams |-> ParamsIn(params, "path"),
                 HeaderParams |-> ParamsIn(params, "header"), CookieParams |-> ParamsIn(params, "cookie")]
    IN IF opServer.err # "" THEN GsError(opServer.err)
       ELSE IF \E i \in DOMAIN params : ~params[i].hasSchema THEN GsPanic
       ELSE IF operation.RequestBody.present /\ mime = ""
            THEN GsError("no supported MIME type found for request body")
       ELSE IF hasBody /\ ~operation.RequestBody.Content[mime].hasSchema THEN GsPanic
       ELSE GsResult([Properties |-> props, Required |-> required], info, TRUE, "")

\* The loop over pathItem.Operations(): methods is the order of the range.
RECURSIVE ScanOperations(_, _, _, _, _, _)
ScanOperations(operationID, path, pathItem, methods, pathServer, mimes) ==
    IF methods = <<>> THEN GsResult(NoSchema, NoInfo, FALSE, "")
    ELSE LET operation == pathItem.Operations[Head(methods)]
         IN IF operation.OperationID = operationID
            THEN MatchedOperation(operationID, path, pathItem, Head(methods), operation, pathServer, mimes)
            ELSE ScanOperations(operationID, path, pathItem, Tail(methods), pathServer, mimes)

\* The loop over t.Paths.Map(): paths is the order of the range that is left.
RECURSIVE ScanPaths(_, _, _, _, _)
ScanPaths(operationID, t, paths, defaultServer, ord) ==
    IF paths = <<>> THEN GsResult(NoSchema, NoInfo, FALSE, "")
    ELSE LET pathItem == t.Paths[Head(paths)]
             pathServer == IF Len(pathItem.Servers) > 0 THEN parseServer(pathItem.Servers[1])
                           ELSE [s |-> defaultServer, err |-> ""]
             r == ScanOperations(operationID, pathItem.Path, pathItem,
                                 Filter(ord.methods, DOMAIN pathItem.Operations), pathServer.s, ord.mimes)
         IN IF pathServer.err # "" THEN GsError(pathServer.err)
            ELSE IF r.found \/ r.err # "" \/ r.panicked THEN r
            ELSE ScanPaths(operationID, t, Tail(paths), defaultServer, ord)

\* GetSchema(operationID, file); t is the document the file holds and ord the
\* orders in which this call ranges over the document's maps.
GetSchema(operationID, t, ord) ==
    LET defaultServer == IF Len(t.Servers) > 0 THEN parseServer(t.Servers[1])
                         ELSE [s |-> <<>>, err |-> ""]
    IN IF ~t.loads THEN GsError("failed to load document")
       ELSE IF defaultServer.err # "" THEN GsError(defaultServer.err)
       ELSE ScanPaths(operationID, t, ord.paths, defaultServer.s, ord)

----------------------------------------------------------------------------
(* JSON values of the argument payload, as gjson reads them *)

Scalar(t, s) == [t |-> t, s |-> s, items |-> <<>>, fields |-> <<>>]
Array(items) == [t |-> "arr", s |-> "", items |-> items, fields |-> <<>>]
Object(fields) == [t |-> "obj", s |-> "", items |-> <<>>, fields |-> fields]

IsArray(res) == res.t = "arr"
IsObject(res) == res.t = "obj"

\* gjson Result.String(): a string's content, a number's or boolean's text,
\* "" for null, and the raw JSON text for an array or an object.
String(res) ==
    IF res.t = "null" THEN <<>>
    ELSE IF res.t \in {"arr", "obj"} THEN <<Lit("<raw JSON>")>>
    ELSE Text(res.s)

\* strings.Join(strs, sep), strs a sequence of texts.
RECURSIVE Join(_, _)
Join(strs, sep) ==
    IF strs = <<>> THEN <<>>
    ELSE IF Len(strs) = 1 THEN strs[1]
    ELSE strs[1] \o Text(sep) \o Join(Tail(strs), sep)

\* item.String() for each item of res.Array().
ItemStrings(res) == [i \in DOMAIN res.items |-> String(res.items[i])]

\* The keys of res.Map() in the order this range over the map yields them.
MapKeys(res, keyOrder) == Filter(keyOrder, DOMAIN res.fields)

\* strs = append(strs, k, v.String()) for each k, v of res.Map().
RECURSIVE FlatPairs(_, _)
FlatPairs(res, keys) ==
    IF keys = <<>> THEN <<>>
    ELSE <<Text(Head(keys)), String(res.fields[Head(keys)])>> \o FlatPairs(res, Tail(keys))

\* strs = append(strs, k+"="+v.String()) for each k, v of res.Map().
RECURSIVE EqPairs(_, _)
EqPairs(res, keys) ==
    IF keys = <<>> THEN <<>>
    ELSE <<Text(Head(keys)) \o Text("=") \o String(res.fields[Head(keys)])>> \o EqPairs(res, Tail(keys))

\* s += pre + x for each text x of strs.
RECURSIVE Prefixed(_, _)
Prefixed(strs, pre) ==
    IF strs = <<>> THEN <<>>
    ELSE pre \o Head(strs) \o Prefixed(Tail(strs), pre)

\* A slip: an absent explode is taken for true.
NotExploded_NilExplodes(param) == param.Explode = "false"

\* param.Explode == nil || !*param.Explode
NotExploded(param) == param.Explode # "true"
\* A slip: an absent explode is taken for false.
ExplodedOrNil_NilJoins(param) == param.Explode = "true"

\* param.Explode == nil || *param.Explode
ExplodedOrNil(param) == param.Explode # "false"

----------------------------------------------------------------------------
(* handlePathParameters, pkg/openapi/run.go *)

PathArray(path, param, res) ==
    LET strs == ItemStrings(res)
        name == param.Name
    IN CASE param.Style \in {"simple", ""} -> ReplaceFirst(path, name, Join(strs, ","))
         [] param.Style = "label" ->
              IF NotExploded(param) THEN ReplaceFirst(path, name, Text(".") \o Join(strs, ","))
              ELSE ReplaceFirst(path, name, Text(".") \o Join(strs, "."))
         [] param.Style = "matrix" ->
              IF NotExploded(param)
              THEN ReplaceFirst(path, name, Text(";") \o Text(name) \o Text("=") \o Join(strs, ","))
              ELSE ReplaceFirst(path, name, Prefixed(strs, Text(";") \o Text(name) \o Text("=")))
         [] OTHER -> path

PathObject(path, param, res, keyOrder) ==
    LET keys == MapKeys(res, keyOrder)
        name == param.Name
    IN CASE param.Style \in {"simple", ""} ->
              IF NotExploded(param) THEN ReplaceFirst(path, name, Join(FlatPairs(res, keys), ","))
              ELSE ReplaceFirst(path, name, Join(EqPairs(res, keys), ","))
         [] param.Style = "label" ->
              IF NotExploded(param)
              THEN ReplaceFirst(path, name, Text(".") \o Join(FlatPairs(res, keys), ","))
              ELSE ReplaceFirst(path, name, Prefixed(EqPairs(res, keys), Text(".")))
         [] param.Style = "matrix" ->
              IF NotExploded(param)
              THEN ReplaceFirst(path, name, Text(";") \o Text(name) \o Text("=") \o Join(FlatPairs(res, keys), ","))
              ELSE ReplaceFirst(path, name, Prefixed(EqPairs(res, keys), Text(";")))
         [] OTHER -> path

PathScalar(path, param, res) ==
    LET name == param.Name
    IN CASE param.Style \in {"simple", ""} -> ReplaceFirst(path, name, String(res))
         [] param.Style = "label" -> ReplaceFirst(path, name, Text(".") \o String(res))
         [] param.Style = "matrix" ->
              ReplaceFirst(path, name, Text(";") \o Text(name) \o Text("=") \o String(res))
         [] OTHER -> path

\* A slip: a parameter the payload does not name is substituted as empty.
PathParam_AbsentEmpty(path, param, input, keyOrder) ==
    IF param.Name \notin DOMAIN input THEN ReplaceFirst(path, param.Name, <<>>)
    ELSE LET res == input[param.Name]
         IN IF IsArray(res) THEN PathArray(path, param, res)
            ELSE IF IsObject(res) THEN PathObject(path, param, res, keyOrder)
            ELSE PathScalar(path, param, res)

\* One iteration of the loop over params.
PathParam(path, param, input, keyOrder) ==
    IF param.Name \notin DOMAIN input THEN path
    ELSE LET res == input[param.Name]
         IN IF IsArray(res) THEN PathArray(path, param, res)
            ELSE IF IsObject(res) THEN PathObject(path, param, res, keyOrder)
            ELSE PathScalar(path, param, res)

RECURSIVE PathLoop(_, _, _, _, _)
PathLoop(path, params, input, ord, i) ==
    IF i > Len(params) THEN path
    ELSE PathLoop(PathParam(path, params[i], input, ord[i]), params, input, ord, i + 1)

\* ord[i] is the order in which the i-th parameter's res.Map() is ranged over.
handlePathParameters(path, params, input, ord) == PathLoop(path, params, input, ord, 1)

----------------------------------------------------------------------------
(* handleQueryParameters, pkg/openapi/run.go *)

\* url.Values.Add: q maps a key to the values added under it, in order.
Add(q, key, value) ==
    IF key \in DOMAIN q THEN [q EXCEPT ![key] = Append(@, value)]
    ELSE [k \in (DOMAIN q) \cup {key} |-> IF k = key THEN <<value>> ELSE q[k]]

\* q.Add(key, v) for each text v of strs.
RECURSIVE AddEach(_, _, _)
AddEach(q, key, strs) ==
    IF strs = <<>> THEN q
    ELSE AddEach(Add(q, key, Head(strs)), key, Tail(strs))

\* q.Add(k, v.String()) for each k, v of res.Map().
RECURSIVE AddFields(_, _, _)
AddFields(q, res, keys) ==
    IF keys = <<>> THEN q
    ELSE AddFields(Add(q, Text(Head(keys)), String(res.fields[Head(keys)])), res, Tail(keys))

\* q.Add(param.Name+"["+k+"]", v.String()) for each k, v of res.Map().
RECURSIVE AddDeep(_, _, _, _)
AddDeep(q, name, res, keys) ==
    IF keys = <<>> THEN q
    ELSE AddDeep(Add(q, Text(name) \o Text("[") \o Text(Head(keys)) \o Text("]"),
                     String(res.fields[Head(keys)])),
                 name, res, Tail(keys))

QueryArray(q, param, res) ==
    LET strs == ItemStrings(res)
        name == Text(param.Name)
    IN CASE param.Style \in {"form", ""} ->
              IF ExplodedOrNil(param) THEN AddEach(q, name, strs) ELSE Add(q, name, Join(strs, ","))
         [] param.Style = "spaceDelimited" ->
              IF ExplodedOrNil(param) THEN AddEach(q, name, strs) ELSE Add(q, name, Join(strs, " "))
         [] param.Style = "pipeDelimited" ->
              IF ExplodedOrNil(param) THEN AddEach(q, name, strs) ELSE Add(q, name, Join(strs, "|"))
         [] OTHER -> q

\* A slip: the deepObject case is left out of the switch.
QueryObject_NoDeepObject(q, param, res, keyOrder) ==
    IF param.Style \in {"form", ""}
    THEN IF ExplodedOrNil(param) THEN AddFields(q, res, MapKeys(res, keyOrder))
         ELSE Add(q, Text(param.Name), Join(FlatPairs(res, MapKeys(res, keyOrder)), ","))
    ELSE q

QueryObject(q, param, res, keyOrder) ==
    LET keys == MapKeys(res, keyOrder)
    IN CASE param.Style \in {"form", ""} ->
              IF ExplodedOrNil(param) THEN AddFields(q, res, keys)
              ELSE Add(q, Text(param.Name), Join(FlatPairs(res, keys), ","))
         [] param.Style = "deepObject" -> AddDeep(q, param.Name, res, keys)
         [] OTHER -> q

\* One iteration of the loop over params.
QueryParam(q, param, input, keyOrder) ==
    IF param.Name \notin DOMAIN input THEN q
    ELSE LET res == input[param.Name]
         IN IF IsArray(res) THEN QueryArray(q, param, res)
            ELSE IF IsObject(res) THEN QueryObject(q, param, res, keyOrder)
            ELSE Add(q, Text(param.Name), String(res))

RECURSIVE QueryLoop(_, _, _, _, _)
QueryLoop(q, params, input, ord, i) ==
    IF i > Len(params) THEN q
    ELSE QueryLoop(QueryParam(q, params[i], input, ord[i]), params, input, ord, i + 1)

handleQueryParameters(q, params, input, ord) == QueryLoop(q, params, input, ord, 1)

----------------------------------------------------------------------------
(* url.Values.Encode and url.QueryEscape, as Run uses them on the query *)

\* The literal pieces that occur in query keys, in byte order.
AtomOrder == <<"X-Trace", "[", "]", "a", "b", "filter", "id", "q", "sid", "tags">>

Rank(tok) == CHOOSE i \in DOMAIN AtomOrder : AtomOrder[i] = tok.s

\* a < b in the byte order of the two key texts.
RECURSIVE TextLess(_, _)
TextLess(a, b) ==
    IF b = <<>> THEN FALSE
    ELSE IF a = <<>> THEN TRUE
    ELSE IF Head(a) = Head(b) THEN TextLess(Tail(a), Tail(b))
    ELSE Rank(Head(a)) < Rank(Head(b))

\* sort.Strings of the keys.
RECURSIVE SortKeys(_)
SortKeys(S) ==
    IF S = {} THEN <<>>
    ELSE LET m == CHOOSE x \in S : \A y \in S \ {x} : TextLess(x, y)
         IN <<m>> \o SortKeys(S \ {m})

\* url.QueryEscape of one piece: the pieces that are not unreserved are
\* percent-encoded, a space becomes "+".
EscapeTok(tok) ==
    IF tok.k = "var" THEN Lit("%7Bname%7D")
    ELSE CASE tok.s = "," -> Lit("%2C")
           [] tok.s = "[" -> Lit("%5B")
           [] tok.s = "]" -> Lit("%5D")
           [] tok.s = "|" -> Lit("%7C")
           [] tok.s = "=" -> Lit("%3D")
           [] tok.s = " " -> Lit("+")
           [] tok.s = "<raw JSON>" -> Lit("<escaped JSON>")
           [] OTHER -> tok

QueryEscape(text) == [i \in DOMAIN text |-> EscapeTok(text[i])]

\* keyEscaped=v1&keyEscaped=v2 for the values of one key.
RECURSIVE EncodeKey(_, _)
EncodeKey(key, values) ==
    IF values = <<>> THEN <<>>
    ELSE <<QueryEscape(key) \o Text("=") \o QueryEscape(Head(values))>> \o EncodeKey(key, Tail(values))

RECURSIVE EncodeKeys(_, _)
EncodeKeys(q, keys) ==
    IF keys = <<>> THEN <<>>
    ELSE EncodeKey(Head(keys), q[Head(keys)]) \o EncodeKeys(q, Tail(keys))

Encode(q) == Join(EncodeKeys(q, SortKeys(DOMAIN q)), "&")

----------------------------------------------------------------------------
(* handleHeaderParameters and handleCookieParameters, pkg/openapi/run.go *)

\* One header line or one cookie, as handed to req.Header.Add / req.AddCookie.
Line(name, value) == [Name |-> name, Value |-> value]

HeaderValue(param, res, keyOrder) ==
    IF IsArray(res) THEN Join(ItemStrings(res), ",")
    ELSE IF IsObject(res)
         THEN IF NotExploded(param) THEN Join(FlatPairs(res, MapKeys(res, keyOrder)), ",")
              ELSE Join(EqPairs(res, MapKeys(res, keyOrder)), ",")
    ELSE String(res)

RECURSIVE HeaderLoop(_, _, _, _, _)
HeaderLoop(header, params, input, ord, i) ==
    IF i > Len(params) THEN header
    ELSE IF params[i].Name \notin DOMAIN input THEN HeaderLoop(header, params, input, ord, i + 1)
    ELSE HeaderLoop(Append(header, Line(params[i].Name, HeaderValue(params[i], input[params[i].Name], ord[i]))),
                    params, input, ord, i + 1)

\* header is the sequence of lines added to req.Header so far.
handleHeaderParameters(header, params, input, ord) == HeaderLoop(header, params, input, ord, 1)

CookieValue(res, keyOrder) ==
    IF IsArray(res) THEN Join(ItemStrings(res), ",")
    ELSE IF IsObject(res) THEN Join(FlatPairs(res, MapKeys(res, keyOrder)), ",")
    ELSE String(res)

RECURSIVE CookieLoop(_, _, _, _, _)
CookieLoop(cookies, params, input, ord, i) ==
    IF i > Len(params) THEN cookies
    ELSE IF params[i].Name \notin DOMAIN input THEN CookieLoop(cookies, params, input, ord, i + 1)
    ELSE CookieLoop(Append(cookies, Line(params[i].Name, CookieValue(input[params[i].Name], ord[i]))),
                    params, input, ord, i + 1)

\* cookies is the sequence of cookies added to the request so far.
handleCookieParameters(cookies, params, input, ord) == CookieLoop(cookies, params, input, ord, 1)

----------------------------------------------------------------------------
(* Run, pkg/openapi/run.go: the steps after GetSchema *)

\* args == "" is read as "{}"; otherwise args is the JSON object it holds.
ArgsObject(args) == IF args.raw = "" THEN <<>> ELSE args.obj

\* The JSON Schema type name of a value.
TypeOf(res) ==
    CASE res.t = "str" -> "string"
      [] res.t = "num" -> "number"
      [] res.t = "bool" -> "boolean"
      [] res.t = "arr" -> "array"
      [] res.t = "obj" -> "object"
      [] OTHER -> "null"

\* A slip: the required list is not looked at.
Valid_TypesOnly(schema, input) ==
    \A n \in (DOMAIN input) \cap (DOMAIN schema.Properties) :
        schema.Properties[n].type \in {"", TypeOf(input[n])}

\* gojsonschema.Validate(schema, args).Valid(): every required name is a key
\* of the payload, and every key that is a property has the property's type
\* (a property schema that states no type accepts every value).
Valid(schema, input) ==
    /\ \A i \in DOMAIN schema.Required : schema.Required[i] \in DOMAIN input
    /\ \A n \in (DOMAIN input) \cap (DOMAIN schema.Properties) :
          schema.Properties[n].type \in {"", TypeOf(input[n])}

\* The pieces with which the path of a server URL begins, and the pieces a
\* host name may not hold.
PathLits == {"/", "/v1"}
BadHostLits == {"bad host"}

RECURSIVE HostPart(_)
HostPart(s) ==
    IF s = <<>> THEN <<>>
    ELSE IF Head(s).k = "lit" /\ Head(s).s \in PathLits THEN <<>>
    ELSE <<Head(s)>> \o HostPart(Tail(s))

\* url.JoinPath(server, path) succeeds: the server parses as a URL, which it
\* does not when its host holds a "{", a "}" or a space.
UrlParses(server) ==
    \A i \in DOMAIN HostPart(server) :
        HostPart(server)[i].k = "lit" /\ HostPart(server)[i].s \notin BadHostLits

\* req.Header.Set: the lines of that name are replaced by one line.
RECURSIVE Without(_, _)
Without(header, name) ==
    IF header = <<>> THEN <<>>
    ELSE IF Head(header).Name = name THEN Without(Tail(header), name)
    ELSE <<Head(header)>> \o Without(Tail(header), name)

Set(header, name, value) == Append(Without(header, name), Line(name, value))

\* multiPartWriter.WriteField(k, v.String()) for each k, v of res.Map().
RECURSIVE Fields(_, _)
Fields(res, keys) ==
    IF keys = <<>> THEN <<>>
    ELSE <<Line(Head(keys), String(res.fields[Head(keys)]))>> \o Fields(res, Tail(keys))

NoBodyBytes == [kind |-> "none", value |-> <<>>]

\* A slip: a multipart body that is no object is sent as an empty form.
MultipartBody_NoShapeCheck(exists, input, keyOrder) ==
    [err |-> "", contentType |-> "multipart/form-data; boundary",
     body |-> [kind |-> "multipart",
               value |-> IF exists /\ IsObject(input["requestBodyContent"])
                         THEN Fields(input["requestBodyContent"], MapKeys(input["requestBodyContent"], keyOrder))
                         ELSE <<>>]]

\* The multipart/form-data case of the switch.
MultipartBody(exists, input, keyOrder) ==
    IF exists /\ IsObject(input["requestBodyContent"])
    THEN [err |-> "", contentType |-> "multipart/form-data; boundary",
          body |-> [kind |-> "multipart",
                    value |-> Fields(input["requestBodyContent"], MapKeys(input["requestBodyContent"], keyOrder))]]
    ELSE [err |-> "multipart/form-data requires an object as the requestBodyContent",
          contentType |-> "", body |-> NoBodyBytes]

\* The request body switch: the body written and the Content-Type set, or
\* the error returned.
BodyStep(mime, input, keyOrder) ==
    LET exists == "requestBodyContent" \in DOMAIN input
        res == input["requestBodyContent"]
    IN CASE mime = "application/json" ->
              [err |-> "", contentType |-> "application/json",
               body |-> [kind |-> "json", value |-> IF exists THEN <<res>> ELSE <<Object(<<>>)>>]]
         [] mime = "text/plain" ->
              [err |-> "", contentType |-> "text/plain",
               body |-> [kind |-> "text", value |-> IF exists THEN String(res) ELSE <<>>]]
         [] mime = "multipart/form-data" -> MultipartBody(exists, input, keyOrder)
         [] OTHER -> [err |-> "unsupported MIME type", contentType |-> "", body |-> NoBodyBytes]

NoRequest ==
    [Method |-> "", Server |-> <<>>, Path |-> <<>>, RawQuery |-> <<>>,
     Header |-> <<>>, Cookies |-> <<>>, Body |-> NoBodyBytes]

\* Lines 41-123 of Run: the request built from opInfo and args, or the error.
\* ord holds the orders in which the maps of the payload are ranged over.
BuildRequest(opInfo, input, environ, ord) ==
    LET path == handlePathParameters(opInfo.Path, opInfo.PathParams, input, ord.path)
        auth == IF environ.OPENAPI_BEARER # ""
                THEN Set(<<>>, "Authorization", Text("Bearer ") \o Text(environ.OPENAPI_BEARER))
                ELSE <<>>
        query == Encode(handleQueryParameters(<<>>, opInfo.QueryParams, input, ord.query))
        rawQuery == IF environ.OPENAPI_QUERY_KEY # ""
                    THEN query \o Text("&") \o Text("key=") \o QueryEscape(Text(environ.OPENAPI_QUERY_KEY))
                    ELSE query
        header == handleHeaderParameters(auth, opInfo.HeaderParams, input, ord.header)
        cookies == handleCookieParameters(<<>>, opInfo.CookieParams, input, ord.cookie)
        b == BodyStep(opInfo.BodyContentMIME, input, ord.body)
        req == [Method |-> opInfo.Method, Server |-> opInfo.Server, Path |-> path,
                RawQuery |-> rawQuery, Header |-> header, Cookies |-> cookies, Body |-> NoBodyBytes]
    IN IF ~UrlParses(opInfo.Server) THEN [err |-> "failed to join server and path", req |-> NoRequest]
       ELSE IF opInfo.BodyContentMIME = "" THEN [err |-> "", req |-> req]
       ELSE IF b.err # "" THEN [err |-> b.err, req |-> NoRequest]
       ELSE [err |-> "",
             req |-> [req EXCEPT !.Header = Set(header, "Content-Type", Text(b.contentType)),
                                 !.Body = b.body]]

\* What http.DefaultClient.Do may answer: a transport error always can
\* happen; a response only when the URL has a scheme and a host.
DoOutcomes(req) == IF req.Server = <<>> THEN {"error"} ELSE {"error", "response"}

----------------------------------------------------------------------------
(* The documents, payloads and environments the commands are run on *)

\* The longest list of files given to a command.
MaxFiles == 2

Variable(default, enum) == [isNil |-> FALSE, Default |-> default, Enum |-> enum]
NilVariable == [isNil |-> TRUE, Default |-> "", Enum |-> <<>>]
Server(url, variables) == [URL |-> url, Variables |-> variables]

\* https://{env}.example.com, env default api
SrvApi == Server(<<Lit("https://"), Var("env"), Lit(".example.com")>>, [n \in {"env"} |-> Variable("api", <<>>)])
\* /api, a relative URL
SrvRel == Server(<<Lit("/api")>>, <<>>)
\* {scheme}://example.com, scheme enumerated https, http and no default
SrvEnum == Server(<<Var("scheme"), Lit("://example.com")>>, [n \in {"scheme"} |-> Variable("", <<"https", "http">>)])
\* https://{env}.example.com/{env}, env default api
SrvTwice == Server(<<Lit("https://"), Var("env"), Lit(".example.com"), Lit("/"), Var("env")>>,
                   [n \in {"env"} |-> Variable("api", <<>>)])
\* https://{env}.example.com, env with neither default nor enum
SrvUnset == Server(<<Lit("https://"), Var("env"), Lit(".example.com")>>, [n \in {"env"} |-> Variable("", <<>>)])
\* https://{env}.example.com, the variable entry is null
SrvNil == Server(<<Lit("https://"), Var("env"), Lit(".example.com")>>, [n \in {"env"} |-> NilVariable])

DocServerLists == {<<>>, <<SrvApi>>, <<SrvRel>>, <<SrvTwice>>, <<SrvRel, SrvApi>>}
PathServerLists == {<<>>, <<SrvApi>>, <<SrvRel>>, <<SrvEnum>>}
OpServerLists == {<<>>, <<SrvApi>>, <<SrvRel>>, <<SrvUnset>>, <<SrvNil>>, <<SrvEnum, SrvRel>>}

Param(name, in, required, style, explode, type, hasSchema) ==
    [Name |-> name, In |-> in, Required |-> required, Style |-> style, Explode |-> explode,
     SchemaType |-> type, hasSchema |-> hasSchema]

PId == Param("id", "path", TRUE, "", "nil", "string", TRUE)
PTags == Param("tags", "query", FALSE, "form", "false", "array", TRUE)
PTagsAny == Param("tags", "query", TRUE, "", "nil", "", TRUE)
PTrace == Param("X-Trace", "header", FALSE, "", "nil", "", TRUE)
PSid == Param("sid", "cookie", FALSE, "", "nil", "", TRUE)
\* a parameter described by content, which has no schema
PNoSchema == Param("q", "query", FALSE, "", "nil", "", FALSE)

\* <<operation.Parameters, pathItem.Parameters>>
ParamLists ==
    {<< <<>>, <<>> >>, << <<PId>>, <<>> >>, << <<PTags>>, <<PId>> >>,
     << <<PId, PTrace, PSid>>, <<>> >>, << <<PTags>>, <<PTagsAny>> >>, << <<PNoSchema>>, <<>> >>}

MIMETypes == {"application/json", "application/x-www-form-urlencoded", "multipart/form-data",
              "text/plain", "application/xml"}

NoBody == [present |-> FALSE, Content |-> <<>>]
MediaType(type) == [hasSchema |-> TRUE, SchemaType |-> type]
Body(mimes, type) == [present |-> TRUE, Content |-> [m \in mimes |-> MediaType(type)]]

Bodies ==
    {NoBody}
    \cup {Body({m}, type) : m \in MIMETypes, type \in {"", "object"}}
    \cup {Body(ms, "") : ms \in {{"application/json", "multipart/form-data"},
                                 {"text/plain", "application/x-www-form-urlencoded"},
                                 {"application/xml", "text/plain"}}}
    \cup {[present |-> TRUE, Content |-> [m \in {"application/json"} |-> [hasSchema |-> FALSE, SchemaType |-> ""]]]}

Operation(id, servers, params, body) ==
    [OperationID |-> id, Servers |-> servers, Parameters |-> params, RequestBody |-> body]
PathItem(path, servers, params, method, operation) ==
    [Path |-> path, Servers |-> servers, Parameters |-> params, Operations |-> [m \in {method} |-> operation]]
Document(servers, paths) == [loads |-> TRUE, Servers |-> servers, Paths |-> paths]

ItemsPath == <<Lit("/items/"), Var("id")>>

\* A second path item, /other, with an operation of another id.
Other(servers) ==
    PathItem(<<Lit("/other")>>, servers, <<>>, "POST", Operation("other", <<>>, <<>>, NoBody))

\* The documents that differ in their server entries.
ServerDocs ==
    { Document(ds, IF second = <<>>
                   THEN [p \in {"/items/{id}"} |->
                            PathItem(ItemsPath, ps, <<>>, "GET", Operation(id, os, <<>>, NoBody))]
                   ELSE [p \in {"/items/{id}", "/other"} |->
                            IF p = "/other" THEN Other(second[1])
                            ELSE PathItem(ItemsPath, ps, <<>>, "GET", Operation(id, os, <<>>, NoBody))]) :
        ds \in DocServerLists, ps \in PathServerLists, os \in OpServerLists,
        id \in {"op", "absent"}, second \in {<<>>, << <<>> >>, << <<SrvRel>> >>} }

\* The documents that differ in the parameters and the body of the operation.
BodyDocs ==
    { Document(<<SrvApi>>, [p \in {"/items/{id}"} |->
          PathItem(ItemsPath, <<>>, pl[2], "POST", Operation("op", <<>>, pl[1], body))]) :
        pl \in ParamLists, body \in Bodies }

\* A document with two operations on one path item, one of them "op".
TwoOps ==
    Document(<<SrvApi>>, [p \in {"/items/{id}"} |->
        [Path |-> ItemsPath, Servers |-> <<>>, Parameters |-> <<>>,
         Operations |-> [m \in {"GET", "POST"} |->
             IF m = "GET" THEN Operation("other", <<SrvRel>>, <<>>, NoBody)
             ELSE Operation("op", <<>>, <<PId>>, NoBody)]]])

Unloadable == [loads |-> FALSE, Servers |-> <<>>, Paths |-> <<>>]
OneOp(servers, id, params, body) ==
    Document(servers, [p \in {"/items/{id}"} |->
        PathItem(ItemsPath, <<>>, <<>>, "GET", Operation(id, <<>>, params, body))])

\* The documents of the multi-file searches.
CliDocs ==
    {Unloadable,
     OneOp(<<SrvApi>>, "absent", <<>>, NoBody),
     OneOp(<<SrvRel>>, "absent", <<>>, NoBody),
     OneOp(<<SrvApi>>, "op", <<>>, NoBody),
     OneOp(<<SrvApi>>, "op", <<PId>>, NoBody),
     OneOp(<<SrvApi>>, "op", <<>>, Body({"application/xml"}, ""))}

Str(s) == Scalar("str", s)
Null == Scalar("null", "null")

NoArgs == [raw |-> "", obj |-> <<>>]
Args(obj) == [raw |-> "json", obj |-> obj]

BodyValues == {Str("text"), Null, Array(<<Str("a")>>), Object([k \in {"a"} |-> Str("1")]),
               Object([k \in {"a", "b"} |-> Str("1")])}

\* The payloads: id, the three optional parameters and the body, each present or not.
Payloads ==
    {NoArgs}
    \cup { Args([n \in ids \cup opt |->
                    IF n = "id" THEN Str("7")
                    ELSE IF n = "tags" THEN Array(<<Str("a"), Str("b")>>)
                    ELSE Str("v")]) :
             ids \in {{}, {"id"}}, opt \in {{}, {"tags", "X-Trace", "sid"}} }
    \cup { Args([n \in ids \cup {"requestBodyContent"} |->
                    IF n = "id" THEN Str("7") ELSE b]) :
             ids \in {{}, {"id"}}, b \in BodyValues }

NoEnv == [OPENAPI_BEARER |-> "", OPENAPI_QUERY_KEY |-> ""]
Envs == {NoEnv, [OPENAPI_BEARER |-> "token", OPENAPI_QUERY_KEY |-> "k"]}

\* The lists of 1..n documents of S.
FileLists(S, n) == UNION { [1..k -> S] : k \in 1..n }

\* What a command is started with.
Inputs ==
    { [files |-> <<d>>, args |-> NoArgs, env |-> NoEnv] : d \in ServerDocs \cup {TwoOps} }
    \cup { [files |-> <<d>>, args |-> a, env |-> NoEnv] : d \in BodyDocs, a \in Payloads }
    \cup { [files |-> fs, args |-> a, env |-> e] :
             fs \in FileLists(CliDocs, MaxFiles), a \in {NoArgs, Args([n \in {"id"} |-> Str("7")])}, e \in Envs }

----------------------------------------------------------------------------
(* The run and get-schema commands, pkg/cli/run.go and pkg/cli/getschema.go *)

VARIABLES
    cmd,          \* "run" or "getschema"
    operationID,  \* args[0]
    files,        \* the documents of the files given, in order
    args,         \* the input of the run command
    environ,      \* OPENAPI_BEARER and OPENAPI_QUERY_KEY
    idx,          \* the position of the loop over files
    pc,           \* where the command is within the current file
    schema,       \* the Argument Schema GetSchema returned for the current file
    opInfo,       \* the OperationInfo GetSchema returned for the current file
    req,          \* the request Run has built
    sent,         \* the requests handed to http.DefaultClient.Do, in order
    steps,        \* the steps executed so far: <<file position, step, what the step returned>>
    ret,          \* what the command returned
    out,          \* what the command printed
    sin,          \* the inputs of a serialization pass
    sout          \* the pass applied to sin and its output

vars == <<cmd, operationID, files, args, environ, idx, pc, schema, opInfo, req, sent, steps, ret, out, sin, sout>>

ObjectKeys == {"a", "b"}

NoRet == [kind |-> "none", op |-> "", file |-> 0, cause |-> ""]
\* return nil
Nil == [kind |-> "nil", op |-> "", file |-> 0, cause |-> ""]
\* fmt.Errorf("failed to ... operation %s in file %s: %w", operationID, file, err)
Wrapped(op, file, err) == [kind |-> "error", op |-> op, file |-> file, cause |-> err]
\* fmt.Errorf("operation %s not found in any file", operationID)
NotFoundInAnyFile(op) == [kind |-> "error", op |-> op, file |-> 0, cause |-> "not found in any file"]
\* the process ended in a panic
Panicked == [kind |-> "panic", op |-> "", file |-> 0, cause |-> "nil pointer dereference"]

Step(name, outcome) == <<idx, name, outcome>>

\* What a call of GetSchema returned, in one word or its error.
Outcome(r) ==
    IF r.panicked THEN "panic"
    ELSE IF r.err # "" THEN r.err
    ELSE IF r.found THEN "found"
    ELSE "not found"

\* A slip: an error of a file is taken for "not in this file".
SearchGoesOn_Swallow(r) == ~r.found

\* The loop over files goes on after this result: no error, and not found.
SearchGoesOn(r) == r.err = "" /\ ~r.found

NoSer == [pass |-> "none"]

Init ==
    /\ \E in \in Inputs :
        /\ files = in.files
        /\ args = in.args
        /\ environ = in.env
    /\ cmd \in {"run", "getschema"}
    /\ operationID = "op"
    /\ idx = 1
    /\ pc = "extract"
    /\ schema = NoSchema
    /\ opInfo = NoInfo
    /\ req = NoRequest
    /\ sent = <<>>
    /\ steps = <<>>
    /\ ret = NoRet
    /\ out = <<>>
    /\ sin = NoSer
    /\ sout = NoSer

\* The command returns r.
Return(r) ==
    /\ pc' = "done"
    /\ ret' = r

\* The loop over files goes on to the next file, or ends.
NextFile ==
    IF idx < Len(files)
    THEN /\ idx' = idx + 1
         /\ pc' = "extract"
         /\ ret' = ret
    ELSE /\ idx' = idx
         /\ Return(NotFoundInAnyFile(operationID))

\* The orders in which one call of GetSchema may range over the maps of t.
Orders(t) ==
    LET methods == UNION { DOMAIN t.Paths[p].Operations : p \in DOMAIN t.Paths }
        mimes == UNION { UNION { DOMAIN t.Paths[p].Operations[m].RequestBody.Content :
                                   m \in DOMAIN t.Paths[p].Operations } : p \in DOMAIN t.Paths }
    IN [paths : Perms(DOMAIN t.Paths), methods : Perms(methods), mimes : Perms(mimes \cap supportedMIMETypes)]

\* GetSchema on the current file, called by get-schema and by Run.
Extract ==
    /\ pc = "extract"
    /\ \E ord \in Orders(files[idx]) :
         LET r == GetSchema(operationID, files[idx], ord)
         IN /\ steps' = Append(steps, Step("extract", Outcome(r)))
            /\ IF r.panicked
               THEN Return(Panicked) /\ UNCHANGED <<idx, schema, opInfo, out>>
               ELSE IF SearchGoesOn(r)
               THEN NextFile /\ UNCHANGED <<schema, opInfo, out>>
               ELSE IF r.err # ""
               THEN Return(Wrapped(operationID, idx, r.err)) /\ UNCHANGED <<idx, schema, opInfo, out>>
               ELSE IF cmd = "getschema"
               THEN /\ Return(Nil)
                    /\ out' = <<r.schema>>
                    /\ UNCHANGED <<idx, schema, opInfo>>
               ELSE /\ pc' = "validate"
                    /\ schema' = r.schema
                    /\ opInfo' = r.info
                    /\ UNCHANGED <<idx, ret, out>>
    /\ UNCHANGED <<cmd, operationID, files, args, environ, req, sent, sin, sout>>

\* Run, lines 29-37.
Validate ==
    /\ pc = "validate"
    /\ IF Valid(schema, ArgsObject(args))
       THEN /\ pc' = "compile"
            /\ ret' = ret
            /\ steps' = Append(steps, Step("validate", ""))
       ELSE /\ Return(Wrapped(operationID, idx, "invalid arguments for operation"))
            /\ steps' = Append(steps, Step("validate", "invalid arguments for operation"))
    /\ UNCHANGED <<cmd, operationID, files, args, environ, idx, schema, opInfo, req, sent, out, sin, sout>>

\* Run, lines 39-123.
Compile ==
    /\ pc = "compile"
    /\ \E keyOrder \in Perms(ObjectKeys) :
         LET ord == [path |-> [i \in DOMAIN opInfo.PathParams |-> keyOrder],
                     query |-> [i \in DOMAIN opInfo.QueryParams |-> keyOrder],
                     header |-> [i \in DOMAIN opInfo.HeaderParams |-> keyOrder],
                     cookie |-> [i \in DOMAIN opInfo.CookieParams |-> keyOrder],
                     body |-> keyOrder]
             r == BuildRequest(opInfo, ArgsObject(args), environ, ord)
         IN /\ steps' = Append(steps, Step("compile", r.err))
            /\ IF r.err # ""
               THEN Return(Wrapped(operationID, idx, r.err)) /\ req' = req
               ELSE pc' = "send" /\ req' = r.req /\ ret' = ret
    /\ UNCHANGED <<cmd, operationID, files, args, environ, idx, schema, opInfo, sent, out, sin, sout>>

\* Run, lines 125-137, and the caller's fmt.Println(output).
Send ==
    /\ pc = "send"
    /\ sent' = Append(sent, req)
    /\ \E answer \in DoOutcomes(req) :
         IF answer = "error"
         THEN /\ Return(Wrapped(operationID, idx, "failed to make request"))
              /\ out' = out
              /\ steps' = Append(steps, Step("send", "failed to make request"))
         ELSE /\ Return(Nil)
              /\ out' = <<"response body">>
              /\ steps' = Append(steps, Step("send", ""))
    /\ UNCHANGED <<cmd, operationID, files, args, environ, idx, schema, opInfo, req, sin, sout>>

Next == Extract \/ Validate \/ Compile \/ Send

Spec == Init /\ [][Next]_vars

----------------------------------------------------------------------------
(* The four parameter passes of Run on their own *)

\* The longest array of a payload.
MaxItems == 2

Styles == {"", "simple", "label", "matrix", "form", "spaceDelimited", "pipeDelimited", "deepObject"}
Explodes == {"nil", "true", "false"}

\* The arrays of 0..n items, each "a" or "b".
Arrays(n) == { Array(items) : items \in UNION { [1..k -> {Str("a"), Str("b")}] : k \in 0..n } }

Objects == { Object([k \in ks |-> IF k = "a" THEN Str("1") ELSE Str("2")]) : ks \in SUBSET ObjectKeys }

Values == {Str("a"), Scalar("num", "1"), Null} \cup Arrays(MaxItems) \cup Objects

\* The payloads of a pass: the parameter absent, or bound to a value.
SerPayloads(name) == {<<>>} \cup { [n \in {name} |-> v] : v \in Values }

\* /items/{name}/{name}
SerPath(name) == <<Lit("/items/"), Var(name), Lit("/"), Var(name)>>

\* The query the URL holds before the pass: none, or name=z.
SerQueries(name) == {<<>>, [k \in {Text(name)} |-> <<Text("z")>>]}

SerInputs ==
    { [pass |-> "in", path |-> SerPath(name), q |-> q,
       params |-> <<[Name |-> name, Style |-> style, Explode |-> explode]>>, input |-> input] :
        name \in {"tags"}, style \in Styles, explode \in Explodes,
        q \in SerQueries("tags"), input \in SerPayloads("tags") }
    \cup
    { [pass |-> "in", path |-> SerPath("filter"), q |-> q,
       params |-> <<[Name |-> "filter", Style |-> "deepObject", Explode |-> explode]>>, input |-> input] :
        explode \in Explodes, q \in SerQueries("filter"), input \in SerPayloads("filter") }

SerInit ==
    /\ sin \in SerInputs
    /\ sout = NoSer
    /\ cmd = "pass"
    /\ operationID = ""
    /\ files = <<>>
    /\ args = NoArgs
    /\ environ = NoEnv
    /\ idx = 0
    /\ pc = "pass"
    /\ schema = NoSchema
    /\ opInfo = NoInfo
    /\ req = NoRequest
    /\ sent = <<>>
    /\ steps = <<>>
    /\ ret = NoRet
    /\ out = <<>>

\* The orders in which the pass ranges over the objects of the payload.
SerOrders == [DOMAIN sin.params -> Perms(ObjectKeys)]

main == <<cmd, operationID, files, args, environ, idx, pc, schema, opInfo, req, sent, steps, ret, out>>

ApplyPath ==
    /\ pc = "pass" /\ sout = NoSer
    /\ \E ord \in SerOrders :
         sout' = [pass |-> "path", ord |-> ord, query |-> <<>>, lines |-> <<>>,
                  result |-> handlePathParameters(sin.path, sin.params, sin.input, ord)]
    /\ UNCHANGED <<main, sin>>

ApplyQuery ==
    /\ pc = "pass" /\ sout = NoSer
    /\ \E ord \in SerOrders :
         LET q == handleQueryParameters(sin.q, sin.params, sin.input, ord)
         IN sout' = [pass |-> "query", ord |-> ord, query |-> q, lines |-> <<>>, result |-> Encode(q)]
    /\ UNCHANGED <<main, sin>>

ApplyHeader ==
    /\ pc = "pass" /\ sout = NoSer
    /\ \E ord \in SerOrders :
         sout' = [pass |-> "header", ord |-> ord, query |-> <<>>, result |-> <<>>,
                  lines |-> handleHeaderParameters(<<>>, sin.params, sin.input, ord)]
    /\ UNCHANGED <<main, sin>>

ApplyCookie ==
    /\ pc = "pass" /\ sout = NoSer
    /\ \E ord \in SerOrders :
         sout' = [pass |-> "cookie", ord |-> ord, query |-> <<>>, result |-> <<>>,
                  lines |-> handleCookieParameters(<<>>, sin.params, sin.input, ord)]
    /\ UNCHANGED <<main, sin>>

SerNext == ApplyPath \/ ApplyQuery \/ ApplyHeader \/ ApplyCookie

SerSpec == SerInit /\ [][SerNext]_vars

----------------------------------------------------------------------------
(* One pass over two declared parameters, each bound or not *)

PairStyles == {"", "matrix", "deepObject"}
PairExplodes == {"nil", "true"}
PairValues == {Str("a"), Array(<<Str("a"), Str("b")>>), Object([k \in ObjectKeys |-> IF k = "a" THEN Str("1") ELSE Str("2")])}

\* The payloads binding any of the two names.
PairPayloads == UNION { [ns -> PairValues] : ns \in SUBSET {"tags", "filter"} }

\* /items/{tags}/{filter}
PairPath == <<Lit("/items/"), Var("tags"), Lit("/"), Var("filter")>>

PairInputs ==
    { [pass |-> "in", path |-> PairPath, q |-> q,
       params |-> <<[Name |-> names[1], Style |-> s1, Explode |-> e1],
                    [Name |-> names[2], Style |-> s2, Explode |-> e2]>>, input |-> input] :
        names \in {<<"tags", "filter">>, <<"filter", "tags">>},
        s1 \in PairStyles, s2 \in PairStyles, e1 \in PairExplodes, e2 \in PairExplodes,
        q \in SerQueries("filter"), input \in PairPayloads }

PairInit ==
    /\ sin \in PairInputs
    /\ sout = NoSer
    /\ cmd = "pass"
    /\ operationID = ""
    /\ files = <<>>
    /\ args = NoArgs
    /\ environ = NoEnv
    /\ idx = 0
    /\ pc = "pass"
    /\ schema = NoSchema
    /\ opInfo = NoInfo
    /\ req = NoRequest
    /\ sent = <<>>
    /\ steps = <<>>
    /\ ret = NoRet
    /\ out = <<>>

PairSpec == PairInit /\ [][SerNext]_vars

----------------------------------------------------------------------------
(* What the claims speak of *)

\* The document holds an operation of this id.
Contains(t, id) ==
    t.loads /\ \E p \in DOMAIN t.Paths : \E m \in DOMAIN t.Paths[p].Operations :
                  t.Paths[p].Operations[m].OperationID = id

\* The steps executed on the file at position f, in order.
RECURSIVE StepsOf(_, _)
StepsOf(log, f) ==
    IF log = <<>> THEN <<>>
    ELSE IF Head(log)[1] = f THEN <<Head(log)[2]>> \o StepsOf(Tail(log), f)
    ELSE StepsOf(Tail(log), f)

IsPrefix(a, b) == Len(a) <= Len(b) /\ \A i \in DOMAIN a : a[i] = b[i]

RunOrder == <<"extract", "validate", "compile", "send">>

\* The step ended in an error (or a panic).
Failed(entry) == entry[3] \notin {"", "found", "not found"}

\* The payload misses a required property, or holds a property of another
\* type than the schema names.
Violates(sch, input) ==
    \/ \E i \in DOMAIN sch.Required : sch.Required[i] \notin DOMAIN input
    \/ \E n \in (DOMAIN input) \cap (DOMAIN sch.Properties) :
          sch.Properties[n].type # "" /\ sch.Properties[n].type # TypeOf(input[n])

Validated == \E i \in DOMAIN steps : steps[i][1] = idx /\ steps[i][2] = "validate"

\* C1: in Run the steps are executed in the order extract, validate, compile,
\* send; a step that fails is the last step executed; and when the payload
\* does not satisfy the extracted schema, Run ends at the validate step with
\* an error and no request is ever handed to the HTTP client.
C1_InvalidArgsSendNothing ==
    /\ \A f \in 1..Len(files) : IsPrefix(StepsOf(steps, f), RunOrder)
    /\ \A i \in DOMAIN steps : Failed(steps[i]) => i = Len(steps) /\ pc = "done" /\ ~ENABLED Next
    /\ (cmd = "run" /\ Validated /\ Violates(schema, ArgsObject(args))) =>
          /\ pc = "done"
          /\ ret = Wrapped(operationID, idx, "invalid arguments for operation")
          /\ steps[Len(steps)][2] = "validate"
          /\ sent = <<>>

\* A payload that misses the required id has been validated.
C1_Witness ==
    /\ cmd = "run" /\ Validated /\ pc = "done"
    /\ \E i \in DOMAIN schema.Required : schema.Required[i] \notin DOMAIN ArgsObject(args)
    /\ ret.kind = "error"

InvalidBodyShape == "multipart/form-data requires an object as the requestBodyContent"

\* Run has ended on an operation whose body is multipart/form-data, with a
\* payload whose requestBodyContent is not a JSON object.
MultipartNoObject ==
    /\ cmd = "run" /\ pc = "done"
    /\ opInfo.BodyContentMIME = "multipart/form-data"
    /\ ~("requestBodyContent" \in DOMAIN ArgsObject(args) /\ IsObject(ArgsObject(args)["requestBodyContent"]))

\* C2, as stated: multipart body type and a requestBodyContent that is no
\* object: Run fails with the invalid-body-shape error and sends nothing.
C2_Original ==
    MultipartNoObject => ret = Wrapped(operationID, idx, InvalidBodyShape) /\ sent = <<>>

\* C2, amended: multipart body type and a requestBodyContent that is no
\* object: Run fails with an error and sends nothing; the error is the
\* validation error when the payload does not satisfy the schema, the URL
\* error when the server does not parse, and else the invalid-body-shape error.
C2_MultipartNoObjectFails ==
    MultipartNoObject =>
        /\ sent = <<>>
        /\ ret.kind = "error" /\ ret.op = operationID /\ ret.file = idx
        /\ ret.cause = IF Violates(schema, ArgsObject(args)) THEN "invalid arguments for operation"
                       ELSE IF ~UrlParses(opInfo.Server) THEN "failed to join server and path"
                       ELSE InvalidBodyShape

\* A payload that satisfies the schema was refused for the shape of its body.
C2_Witness ==
    /\ MultipartNoObject
    /\ "requestBodyContent" \in DOMAIN ArgsObject(args)
    /\ ret.cause = InvalidBodyShape

\* C3: after a successful extraction Run never returns the "unsupported MIME
\* type" error.
C3_UnsupportedMIMEUnreachable == ret.cause # "unsupported MIME type"

\* The file at position f was examined.
Examined(f) == \E i \in DOMAIN steps : steps[i][1] = f

\* C4: the run command examines the files in the given order, one at a time;
\* it stops at the first file that holds the operation; it hands at most one
\* request to the HTTP client; a (loaded) file that does not hold the operation
\* is passed over without error; and when no file holds the operation the
\* command ends with "operation not found in any file".
C4_SequentialFirstMatch ==
    cmd = "run" =>
        /\ \A i, j \in DOMAIN steps : i <= j => steps[i][1] <= steps[j][1]
        /\ \A f \in 1..Len(files) : Examined(f) => \A g \in 1..(f - 1) : ~Contains(files[g], operationID)
        /\ Len(sent) <= 1
        /\ \A i \in DOMAIN steps :
              (files[steps[i][1]].loads /\ ~Contains(files[steps[i][1]], operationID))
                  => steps[i] = <<steps[i][1], "extract", "not found">>
        /\ (pc = "done" /\ \A f \in 1..Len(files) : files[f].loads /\ ~Contains(files[f], operationID))
              => ret = NotFoundInAnyFile(operationID)

\* C5: an error of a step on a file is returned at once, wrapped with the
\* operation id and that file: it is the last step executed, no later file
\* is examined, and the command's result is that error; the search went on
\* past a file only when GetSchema returned found=false and no error.
C5_ErrorsSurfaceAtOnce ==
    /\ \A i \in DOMAIN steps :
          (Failed(steps[i]) /\ steps[i][3] # "panic") =>
              /\ i = Len(steps)
              /\ pc = "done"
              /\ idx = steps[i][1]
              /\ ret = Wrapped(operationID, steps[i][1], steps[i][3])
    /\ \A i \in DOMAIN steps :
          (\E j \in DOMAIN steps : j > i /\ steps[j][1] > steps[i][1])
              => steps[i][2] = "extract" /\ steps[i][3] = "not found"
    /\ (ret.kind = "error" /\ ret.file > 0) => Failed(steps[Len(steps)])

\* An error of the second file ended the search there.
C5_Witness ==
    /\ Len(files) = 2 /\ Len(steps) = 2
    /\ steps[1] = <<1, "extract", "not found">>
    /\ Failed(steps[2]) /\ steps[2][1] = 2
    /\ ret = Wrapped(operationID, 2, steps[2][3])

\* C6: GetSchema on a loaded document that holds no operation of the id
\* returns found=false and no error, whatever its server entries hold.
C6_AbsentIsNotFound ==
    \A i \in DOMAIN steps :
        (steps[i][2] = "extract" /\ files[steps[i][1]].loads /\ ~Contains(files[steps[i][1]], operationID))
            => steps[i][3] = "not found"

\* strings.ReplaceAll(s, "{name}", val): every "{name}" becomes val.
ReplaceEvery(s, name, val) ==
    [i \in DOMAIN s |-> IF s[i] = Var(name) THEN Lit(val) ELSE s[i]]

\* The URL of a server entry with every placeholder of a variable replaced
\* by the variable's default, or its first enumerated value without one.
RECURSIVE Resolved(_, _, _)
Resolved(s, variables, names) ==
    IF names = {} THEN s
    ELSE LET name == CHOOSE x \in names : TRUE
             v == variables[name]
             s2 == IF v.isNil THEN s
                   ELSE IF v.Default # "" THEN ReplaceEvery(s, name, v.Default)
                   ELSE IF Len(v.Enum) > 0 THEN ReplaceEvery(s, name, v.Enum[1])
                   ELSE s
         IN Resolved(s2, variables, names \ {name})

\* The first entry of the most specific non-empty server list of the
\* operation of this id, resolved (the empty list when there is none).
MostSpecific(t, id) ==
    LET p == CHOOSE x \in DOMAIN t.Paths : \E m \in DOMAIN t.Paths[x].Operations :
                        t.Paths[x].Operations[m].OperationID = id
        m == CHOOSE x \in DOMAIN t.Paths[p].Operations : t.Paths[p].Operations[x].OperationID = id
        op == t.Paths[p].Operations[m]
    IN IF Len(op.Servers) > 0 THEN <<op.Servers[1]>>
       ELSE IF Len(t.Paths[p].Servers) > 0 THEN <<t.Paths[p].Servers[1]>>
       ELSE IF Len(t.Servers) > 0 THEN <<t.Servers[1]>>
       ELSE <<>>

ResolvedServer(t, id) ==
    LET e == MostSpecific(t, id)
    IN IF e = <<>> THEN <<>> ELSE Resolved(e[1].URL, e[1].Variables, DOMAIN e[1].Variables)

\* C7: for a matched operation the descriptor's server is the first entry of
\* the most specific non-empty server list with every placeholder resolved,
\* and extraction fails with the invalid-server-URL error when that URL does
\* not begin with http.
C7_ServerFullyResolved ==
    \A i \in DOMAIN steps :
        (steps[i][2] = "extract" /\ Contains(files[steps[i][1]], operationID)) =>
            /\ (steps[i][3] = "found" /\ cmd = "run") => opInfo.Server = ResolvedServer(files[steps[i][1]], operationID)
            /\ (MostSpecific(files[steps[i][1]], operationID) # <<>>
                  /\ ~HasHttpPrefix(ResolvedServer(files[steps[i][1]], operationID)))
                   => steps[i][3] = "invalid server URL"

\* The operation of this id declares a request body.
DeclaresBody(t, id) ==
    \E p \in DOMAIN t.Paths : \E m \in DOMAIN t.Paths[p].Operations :
        t.Paths[p].Operations[m].OperationID = id /\ t.Paths[p].Operations[m].RequestBody.present

\* The schema the command holds once GetSchema has returned found=true.
Extracted == IF cmd = "run" THEN schema ELSE IF out # <<>> THEN out[1] ELSE NoSchema

FoundHere == \E i \in DOMAIN steps : steps[i] = <<idx, "extract", "found">>

\* C8, as stated: GetSchema on a document that holds the operation returns
\* found=true.
C8_Original ==
    \A i \in DOMAIN steps :
        (steps[i][2] = "extract" /\ Contains(files[steps[i][1]], operationID)) => steps[i][3] = "found"

\* C8, amended: whenever GetSchema on a document that holds the operation
\* returns without an error, it returns found=true and a schema every
\* required name of which is a key of its properties, requestBodyContent
\* being in both when the operation declares a body.
C8_RequiredSubsetOfProperties ==
    /\ \A i \in DOMAIN steps :
          (steps[i][2] = "extract" /\ Contains(files[steps[i][1]], operationID) /\ ~Failed(steps[i]))
              => steps[i][3] = "found"
    /\ \A i \in DOMAIN Extracted.Required : Extracted.Required[i] \in DOMAIN Extracted.Properties
    /\ (FoundHere /\ DeclaresBody(files[idx], operationID)) =>
          /\ "requestBodyContent" \in DOMAIN Extracted.Properties
          /\ \E i \in DOMAIN Extracted.Required : Extracted.Required[i] = "requestBodyContent"

\* An operation with a required parameter and a body has been extracted.
C8_Witness ==
    /\ cmd = "run" /\ pc = "validate"
    /\ Len(schema.Required) >= 2
    /\ opInfo.BodyContentMIME # ""

\* The parameter of the pass, its value in the payload, and the order in
\* which the pass ranged over the value's keys.
TheParam == sin.params[1]
Bound == TheParam.Name \in DOMAIN sin.input
TheValue == sin.input[TheParam.Name]
TheKeys == MapKeys(TheValue, sout.ord[1])

\* The path with the first placeholder of the parameter replaced by text.
Substituted(text) == ReplaceFirst(sin.path, TheParam.Name, text)

\* The path pass has served a bound parameter of style simple (or none).
SimplePath == sout.pass = "path" /\ TheParam.Style \in {"simple", ""} /\ Bound

\* The same pass with the parameter's explode set to e.
PathWithExplode(e) ==
    handlePathParameters(sin.path, <<[TheParam EXCEPT !.Explode = e]>>, sin.input, sout.ord)

\* C9, as stated: for style simple the substituted path is the same for
\* explode true, false and absent; an array gives its items joined by commas,
\* an object k,v,k,v joined by commas, a scalar its string form.
C9_Original ==
    SimplePath =>
        /\ \A e \in Explodes : sout.result = PathWithExplode(e)
        /\ sout.result = Substituted(IF IsArray(TheValue) THEN Join(ItemStrings(TheValue), ",")
                                     ELSE IF IsObject(TheValue) THEN Join(FlatPairs(TheValue, TheKeys), ",")
                                     ELSE String(TheValue))

\* C9, amended: for style simple an array gives its items joined by commas
\* and a scalar its string form, whether explode is true, false or absent;
\* an object gives k,v,k,v joined by commas when explode is false or absent,
\* and k=v,k=v joined by commas when explode is true, the keys in the order
\* the map yields them.
C9_SimplePathSerialization ==
    SimplePath =>
        /\ ~IsObject(TheValue) => \A e \in Explodes : sout.result = PathWithExplode(e)
        /\ sout.result = Substituted(IF IsArray(TheValue) THEN Join(ItemStrings(TheValue), ",")
                                     ELSE IF IsObject(TheValue)
                                          THEN IF TheParam.Explode = "true"
                                               THEN Join(EqPairs(TheValue, TheKeys), ",")
                                               ELSE Join(FlatPairs(TheValue, TheKeys), ",")
                                     ELSE String(TheValue))
        /\ (TheValue = Array(<<Str("a"), Str("b")>>))
              => sout.result = <<Lit("/items/"), Lit("a"), Lit(","), Lit("b"), Lit("/"), Var("tags")>>
        /\ (TheValue = Object([k \in {"a"} |-> Str("1")]) /\ TheParam.Explode = "nil")
              => sout.result = <<Lit("/items/"), Lit("a"), Lit(","), Lit("1"), Lit("/"), Var("tags")>>
        /\ (TheValue = Object([k \in {"a"} |-> Str("1")]) /\ TheParam.Explode = "true")
              => sout.result = <<Lit("/items/"), Lit("a"), Lit("="), Lit("1"), Lit("/"), Var("tags")>>

\* A two-key object was serialized with style simple and explode true.
C9_Witness ==
    /\ SimplePath /\ TheParam.Explode = "true"
    /\ IsObject(TheValue) /\ DOMAIN TheValue.fields = {"a", "b"}
    /\ sout.result # PathWithExplode("false")

\* The query after q.Add(pair[1], pair[2]) for each pair, in order.
RECURSIVE AddPairs(_, _)
AddPairs(q, pairs) ==
    IF pairs = <<>> THEN q
    ELSE AddPairs(Add(q, Head(pairs)[1], Head(pairs)[2]), Tail(pairs))

\* The query pass has served a bound array or object of style form (or none).
FormQuery ==
    /\ sout.pass = "query" /\ TheParam.Style \in {"form", ""} /\ Bound
    /\ IsArray(TheValue) \/ IsObject(TheValue)

\* C10: for style form an array adds one name=item pair per item and an
\* object one key=value pair per key when explode is true or absent; when
\* explode is false exactly one pair is added, under the parameter's name,
\* its value the items joined by commas or the alternating k,v list joined
\* by commas.  ["a","b"] bound to tags encodes as tags=a&tags=b when
\* exploded and as tags=a%2Cb when not.
C10_FormQuerySerialization ==
    FormQuery =>
        /\ sout.query =
             AddPairs(sin.q,
                 IF TheParam.Explode # "false"
                 THEN IF IsArray(TheValue)
                      THEN [i \in DOMAIN TheValue.items |-> <<Text(TheParam.Name), String(TheValue.items[i])>>]
                      ELSE [i \in DOMAIN TheKeys |-> <<Text(TheKeys[i]), String(TheValue.fields[TheKeys[i]])>>]
                 ELSE IF IsArray(TheValue)
                      THEN << <<Text(TheParam.Name), Join(ItemStrings(TheValue), ",")>> >>
                      ELSE << <<Text(TheParam.Name), Join(FlatPairs(TheValue, TheKeys), ",")>> >>)
        /\ (TheValue = Array(<<Str("a"), Str("b")>>) /\ sin.q = <<>>) =>
              sout.result = IF TheParam.Explode # "false"
                            THEN <<Lit("tags"), Lit("="), Lit("a"), Lit("&"), Lit("tags"), Lit("="), Lit("b")>>
                            ELSE <<Lit("tags"), Lit("="), Lit("a"), Lit("%2C"), Lit("b")>>

\* ["a","b"] was bound to tags with style form and explode false.
C10_Witness ==
    /\ FormQuery /\ TheParam.Explode = "false" /\ TheParam.Style = "form"
    /\ TheValue = Array(<<Str("a"), Str("b")>>) /\ sin.q = <<>>
    /\ sout.result = <<Lit("tags"), Lit("="), Lit("a"), Lit("%2C"), Lit("b")>>

\* The query pass has served a bound parameter of style deepObject.
DeepQuery == sout.pass = "query" /\ TheParam.Style = "deepObject" /\ Bound

\* name[key], value for each key of the value, in the order of the range.
DeepPairs ==
    [i \in DOMAIN TheKeys |->
        <<Text(TheParam.Name) \o <<Lit("["), Lit(TheKeys[i]), Lit("]")>>, String(TheValue.fields[TheKeys[i]])>>]

\* The same pass with the parameter's explode set to e.
QueryWithExplode(e) ==
    handleQueryParameters(sin.q, <<[TheParam EXCEPT !.Explode = e]>>, sin.input, sout.ord)

\* C11, as stated: for style deepObject explode is ignored, an object adds
\* exactly one name[key]=value pair per key, and an array or a scalar
\* leaves the query as it was.
C11_Original ==
    DeepQuery =>
        /\ \A e \in Explodes : sout.query = QueryWithExplode(e)
        /\ sout.query = IF IsObject(TheValue) THEN AddPairs(sin.q, DeepPairs) ELSE sin.q

\* C11, amended: for style deepObject explode is ignored; an object adds
\* exactly one name[key]=value pair per key; an array leaves the query as
\* it was; a scalar adds the one pair name=value, as it does for every
\* style.  {"a":"1","b":"2"} bound to filter encodes as
\* filter%5Ba%5D=1&filter%5Bb%5D=2.
C11_DeepObjectQuerySerialization ==
    DeepQuery =>
        /\ \A e \in Explodes : sout.query = QueryWithExplode(e)
        /\ sout.query = IF IsObject(TheValue) THEN AddPairs(sin.q, DeepPairs)
                        ELSE IF IsArray(TheValue) THEN sin.q
                        ELSE AddPairs(sin.q, << <<Text(TheParam.Name), String(TheValue)>> >>)
        /\ (TheParam.Name = "filter" /\ sin.q = <<>> /\ IsObject(TheValue) /\ DOMAIN TheValue.fields = {"a", "b"})
              => sout.result = <<Lit("filter"), Lit("%5B"), Lit("a"), Lit("%5D"), Lit("="), Lit("1"), Lit("&"),
                                 Lit("filter"), Lit("%5B"), Lit("b"), Lit("%5D"), Lit("="), Lit("2")>>

\* {"a":"1","b":"2"} was bound to filter with style deepObject, the map
\* yielding b before a.
C11_Witness ==
    /\ DeepQuery /\ TheParam.Name = "filter" /\ sin.q = <<>>
    /\ IsObject(TheValue) /\ DOMAIN TheValue.fields = {"a", "b"}
    /\ TheKeys = <<"b", "a">>
    /\ Len(sout.result) = 13

\* The sequence without its i-th element.
Drop(seq, i) == SubSeq(seq, 1, i - 1) \o SubSeq(seq, i + 1, Len(seq))

\* The number of positions of the sequence that hold x.
Count(seq, x) == Cardinality({k \in DOMAIN seq : seq[k] = x})

\* The declared parameters the payload does not name.
Unbound == {i \in DOMAIN sin.params : sin.params[i].Name \notin DOMAIN sin.input}

\* The pairs the query holds under the key: none when the key is absent.
Under(q, key) == IF key \in DOMAIN q THEN q[key] ELSE <<>>

\* C12: in each of the four passes a parameter whose name is not a key of
\* the payload leaves the request unchanged: its {name} placeholder stays
\* in the path, no query pair, header line or cookie is added for it, and
\* the output for the other parameters is what it would be were that
\* parameter not declared.
C12_AbsentParameterLeavesRequestUnchanged ==
    \A i \in Unbound :
        LET name == sin.params[i].Name
            others == Drop(sin.params, i)
            ord == Drop(sout.ord, i)
        IN /\ sout.pass = "path" =>
                /\ sout.result = handlePathParameters(sin.path, others, sin.input, ord)
                /\ Count(sout.result, Var(name)) = Count(sin.path, Var(name))
           /\ sout.pass = "query" =>
                /\ sout.query = handleQueryParameters(sin.q, others, sin.input, ord)
                /\ sout.result = Encode(handleQueryParameters(sin.q, others, sin.input, ord))
                /\ Under(sout.query, Text(name)) = Under(sin.q, Text(name))
           /\ sout.pass = "header" =>
                /\ sout.lines = handleHeaderParameters(<<>>, others, sin.input, ord)
                /\ \A k \in DOMAIN sout.lines : sout.lines[k].Name # name
           /\ sout.pass = "cookie" =>
                /\ sout.lines = handleCookieParameters(<<>>, others, sin.input, ord)
                /\ \A k \in DOMAIN sout.lines : sout.lines[k].Name # name

\* The path pass served tags, bound to ["a","b"], and skipped filter, which
\* the payload does not name: /items/a,b/{filter}.
C12_Witness ==
    /\ sout.pass = "path"
    /\ Len(sin.params) = 2
    /\ DOMAIN sin.input = {"tags"}
    /\ sin.input["tags"] = Array(<<Str("a"), Str("b")>>)
    /\ sin.params[1].Name = "filter"
    /\ sin.params[2].Style = ""
    /\ sout.result = <<Lit("/items/"), Lit("a"), Lit(","), Lit("b"), Lit("/"), Var("filter")>>

====
